---- MODULE Spec2Model ----
(***************************************************************************)
(* Model of src/main.rs of spacegame-rust-ecs: the BoundingBox2D geometry, *)
(* the Health component, the World (entity counter and the two component   *)
(* stores), the two draw systems and the frame loop of main().             *)
(*                                                                         *)
(* f32 values are modelled as integers counting halves (1.0 is 2, 0.5 is   *)
(* 1) and every f32 addition and subtraction rounds its result to the 24   *)
(* significant bits of an f32, ties to even.  u16 values are integers in   *)
(* 0 .. 65535.  Rust checks integer overflow in a debug build (panic) and  *)
(* wraps in a release build; both outcomes are modelled.                   *)
(***************************************************************************)
EXTENDS Integers, Sequences, FiniteSets, TLC

VARIABLES
    pc,                \* position of main(): setup, the loop's steps, exited, panicked
    last_entity,       \* World.last_entity
    returned,          \* the values World::new_entity has returned, in call order
    base_components,   \* World.base_components : Vec<(EntityID, Base2D)>
    health_components, \* World.health_components : Vec<(EntityID, Health)>
    damage_calls,      \* number of take_damage calls made so far
    last_damage,       \* the latest take_damage call: component, health before, amount
    handles,           \* number of live RaylibDrawHandle values (surfaces held)
    frame_log,         \* the calls main()'s loop made in the current frame, in order
    calls,             \* the drawing calls the draw systems emitted in the current frame
    joined,            \* the (base index, health index) pairs Health::draw_system visited
    outcome,           \* how the frame's Health::draw_system call ended
    gin,               \* geometry: the arguments given to BoundingBox2D::new
    gbox,              \* geometry: the box BoundingBox2D::new built
    gout               \* geometry: width, height, center and the 9 anchors of gbox

vars == <<pc, last_entity, returned, base_components, health_components,
          damage_calls, last_damage, handles, frame_log, calls, joined,
          outcome, gin, gbox, gout>>

worldVars == <<pc, last_entity, returned, base_components, health_components,
               damage_calls, last_damage, handles, frame_log, calls, joined,
               outcome>>

geomVars == <<gin, gbox, gout>>

----------------------------------------------------------------------------
(* Bounds of the model *)

MaxEntities == 2

MaxBase == 2

MaxHealthComps == 2

MaxHits == 3

----------------------------------------------------------------------------
(* Number types *)

F32_MANTISSA_DIGITS == 24

U16_MOD == 65536

Fx(n) == 2 * n

Abs(a) == IF a < 0 THEN -a ELSE a

RECURSIVE Ulp(_)
Ulp(m) == IF m < 2 ^ F32_MANTISSA_DIGITS THEN 1 ELSE 2 * Ulp(m \div 2)

F32Round(a) ==
    LET m   == Abs(a)
        u   == Ulp(m)
        q   == m \div u
        r   == m % u
        up  == (2 * r > u) \/ (2 * r = u /\ q % 2 = 1)
        res == IF up THEN (q + 1) * u ELSE q * u
    IN  IF a < 0 THEN -res ELSE res

FAdd(a, b) == F32Round(a + b)

FSub(a, b) == F32Round(a - b)

\* a * 0.5 ; exact for the even (whole-number) values it is applied to
FHalf(a) == a \div 2

Vector2(x, y) == [x |-> x, y |-> y]

----------------------------------------------------------------------------
(* Anchor and BoundingBox2D *)

Anchor == {"TopLeft", "TopCenter", "TopRight",
           "CenterLeft", "Center", "CenterRight",
           "BottomLeft", "BottomCenter", "BottomRight"}

Anchor_values == <<"TopLeft", "TopCenter", "TopRight",
                   "CenterLeft", "Center", "CenterRight",
                   "BottomLeft", "BottomCenter", "BottomRight">>

BoundingBox2D_new_size(x, y, w, h) == [x1 |-> x, y1 |-> y, x2 |-> w, y2 |-> h]

BoundingBox2D_new(x, y, w, h) ==
    [x1 |-> x, y1 |-> y, x2 |-> FAdd(x, w), y2 |-> FAdd(y, h)]

new_v(pos, size) == BoundingBox2D_new(pos.x, pos.y, size.x, size.y)

width(self) == FSub(self.x2, self.x1)

height(self) == FSub(self.y2, self.y1)

center(self) ==
    Vector2(FAdd(self.x1, FHalf(width(self))), FAdd(self.y1, FHalf(height(self))))

calc(self, anchor) ==
    CASE anchor = "TopLeft"      -> Vector2(self.x1, self.y1)
      [] anchor = "TopCenter"    -> Vector2(FAdd(self.x1, FHalf(width(self))), self.y1)
      [] anchor = "TopRight"     -> Vector2(self.x2, self.y1)
      [] anchor = "CenterLeft"   -> Vector2(self.x1, FAdd(self.y1, FHalf(height(self))))
      [] anchor = "Center"       -> center(self)
      [] anchor = "CenterRight"  -> Vector2(self.x2, FAdd(self.y1, FHalf(height(self))))
      [] anchor = "BottomLeft"   -> Vector2(self.x1, self.y2)
      [] anchor = "BottomCenter" -> Vector2(FAdd(self.x1, FHalf(width(self))), self.y2)
      [] anchor = "BottomRight"  -> Vector2(self.x2, self.y2)

----------------------------------------------------------------------------
(* Base2D and Health *)

UIBarStyle == {"HIDDEN", "INLINE", "BOSS"}

Base2D_new(pos, size) ==
    [name |-> "Unnamed", bounds |-> new_v(pos, size), tint |-> "WHITE",
     visible |-> TRUE]

Health_new(health) ==
    [max_health |-> health, health |-> health, bar_style |-> "INLINE"]

\* self.health -= amount on a u16: the set of outcomes the builds produce.
\* Without overflow there is one; with overflow a debug build panics before
\* the store and a release build stores the wrapped difference.
take_damage(self, amount) ==
    IF amount <= self.health
    THEN {[panic |-> FALSE, self |-> [self EXCEPT !.health = self.health - amount]]}
    ELSE {[panic |-> TRUE, self |-> self],
          [panic |-> FALSE,
           self |-> [self EXCEPT !.health = (self.health - amount) % U16_MOD]]}

----------------------------------------------------------------------------
(* World *)

World_new == [last_entity |-> 0, base_components |-> <<>>,
              health_components |-> <<>>]

new_entity_stale(le) == [last_entity |-> le + 1, ret |-> le]

new_entity(le) == [last_entity |-> le + 1, ret |-> le + 1]

RECURSIVE ReplaceFirst(_, _, _, _)
ReplaceFirst(store, id, comp, i) ==
    IF i > Len(store) THEN Append(store, <<id, comp>>)
    ELSE IF store[i][1] = id THEN [store EXCEPT ![i] = <<id, comp>>]
    ELSE ReplaceFirst(store, id, comp, i + 1)

push_replace(store, id, comp) == ReplaceFirst(store, id, comp, 1)

\* Vec::push of an (EntityID, component) pair
push(store, id, comp) == Append(store, <<id, comp>>)

----------------------------------------------------------------------------
(* Draw systems *)

DrawCall(sys, op, x, y, w, h, color) ==
    [sys |-> sys, op |-> op, x |-> x, y |-> y, w |-> w, h |-> h, color |-> color]

\* Into<ffi::Rectangle> for BoundingBox2D
into_Rectangle(self) ==
    [x |-> self.x1, y |-> self.y1,
     width |-> FSub(self.x2, self.x1), height |-> FSub(self.y2, self.y1)]

RECURSIVE AnchorCircles(_, _)
AnchorCircles(bounds, k) ==
    IF k > Len(Anchor_values) THEN <<>>
    ELSE LET p == calc(bounds, Anchor_values[k])
         IN  <<DrawCall("Base2D", "draw_circle_v", p.x, p.y, Fx(2), Fx(2), "RED")>>
             \o AnchorCircles(bounds, k + 1)

\* The drawing calls of Base2D::draw_system, in the order it emits them
RECURSIVE Base2D_draw_system(_, _)
Base2D_draw_system(bs, i) ==
    IF i > Len(bs) THEN <<>>
    ELSE LET base == bs[i][2]
             r    == into_Rectangle(base.bounds)
         IN  <<DrawCall("Base2D", "draw_rectangle_lines_ex",
                        r.x, r.y, r.width, r.height, base.tint)>>
             \o AnchorCircles(base.bounds, 1)
             \o Base2D_draw_system(bs, i + 1)

RECURSIVE find_last(_, _, _)
find_last(hs, id, k) ==
    IF k > Len(hs) THEN 0
    ELSE LET later == find_last(hs, id, k + 1)
         IN  IF later # 0 THEN later ELSE IF hs[k][1] = id THEN k ELSE 0

\* world.health_components.iter().find(|h| b.0 == h.0), searching from index k:
\* the index of the first entry with that EntityID, 0 for None
RECURSIVE find(_, _, _)
find(hs, id, k) ==
    IF k > Len(hs) THEN 0
    ELSE IF hs[k][1] = id THEN k
    ELSE find(hs, id, k + 1)

inline_bar_rect_uncentred(bounds) ==
    LET top_center == calc(bounds, "TopCenter")
    IN  [x |-> top_center.x, y |-> FSub(top_center.y, Fx(20)),
         width |-> Fx(80), height |-> Fx(10)]

\* The Rectangle of the INLINE arm
inline_bar_rect(bounds) ==
    LET w  == Fx(80)
        h  == Fx(10)
        tc == calc(bounds, "TopCenter")
        top_center == Vector2(FSub(tc.x, 0), FSub(tc.y, Fx(20)))
    IN  [x |-> FSub(top_center.x, FHalf(w)), y |-> FSub(top_center.y, FHalf(h)),
         width |-> w, height |-> h]

\* Health::draw_system from base entry i on.  acc collects the drawing calls
\* emitted, the joined pairs handed to for_each and whether todo!() panicked;
\* the iterator chain is lazy, so a panic ends the walk at the BOSS pair.
RECURSIVE Health_draw_system(_, _, _, _)
Health_draw_system(bs, hs, i, acc) ==
    IF i > Len(bs) THEN acc
    ELSE LET k == find(hs, bs[i][1], 1)
         IN  IF k = 0 THEN Health_draw_system(bs, hs, i + 1, acc)
             ELSE LET b    == bs[i][2]
                      h    == hs[k][2]
                      acc1 == [acc EXCEPT !.joined = Append(@, [b |-> i, h |-> k])]
                  IN  CASE h.bar_style = "INLINE" ->
                             LET rect == inline_bar_rect(b.bounds)
                                 c    == DrawCall("Health", "draw_rectangle_lines_ex",
                                                  rect.x, rect.y, rect.width,
                                                  rect.height, "WHITE")
                             IN  Health_draw_system(bs, hs, i + 1,
                                     [acc1 EXCEPT !.calls = Append(@, c)])
                        [] h.bar_style = "BOSS" -> [acc1 EXCEPT !.panicked = TRUE]
                        [] OTHER -> Health_draw_system(bs, hs, i + 1, acc1)

----------------------------------------------------------------------------
(* Inputs *)

\* The two entities main() builds: position, size and tint of their Base2D
BaseInputs ==
    {[pos |-> Vector2(Fx(100), Fx(280)), size |-> Vector2(Fx(36), Fx(48)),
      tint |-> "WHITE"],
     [pos |-> Vector2(Fx(400), Fx(380)), size |-> Vector2(Fx(76), Fx(48)),
      tint |-> "YELLOW"]}

HealthInputs == {20}

HealthNewInputs == {0, 20, 65535}

DamageAmounts == {0, 5, 20, 65535}

GeomOrigins == {0, 100, 16777216}

GeomSizes == {0, 1, 50, 100}

NoDamage == [valid |-> FALSE, idx |-> 0, before |-> 0, amount |-> 0]

NoBox == [x1 |-> 0, y1 |-> 0, x2 |-> 0, y2 |-> 0]

NoGeomIn == [valid |-> FALSE, x |-> 0, y |-> 0, w |-> 0, h |-> 0]

NoGeomOut == [valid |-> FALSE, width |-> 0, height |-> 0,
              center |-> Vector2(0, 0),
              anchors |-> [a \in Anchor |-> Vector2(0, 0)]]

----------------------------------------------------------------------------
(* main(): building the world *)

Init ==
    /\ pc = "setup"
    /\ last_entity = World_new.last_entity
    /\ base_components = World_new.base_components
    /\ health_components = World_new.health_components
    /\ returned = <<>>
    /\ damage_calls = 0
    /\ last_damage = NoDamage
    /\ handles = 0
    /\ frame_log = <<>>
    /\ calls = <<>>
    /\ joined = <<>>
    /\ outcome = "none"
    /\ gin = NoGeomIn
    /\ gbox = NoBox
    /\ gout = NoGeomOut

\* let e = world.new_entity();
NewEntity ==
    /\ pc = "setup"
    /\ last_entity < MaxEntities
    /\ LET r == new_entity(last_entity)
       IN  /\ last_entity' = r.last_entity
           /\ returned' = Append(returned, r.ret)
    /\ UNCHANGED <<pc, base_components, health_components, damage_calls,
                   last_damage, handles, frame_log, calls, joined, outcome,
                   geomVars>>

\* let mut base2d = Base2D::new(pos, size); base2d.tint = tint;
\* world.base_components.push((id, base2d));
PushBase ==
    /\ pc = "setup"
    /\ Len(base_components) < MaxBase
    /\ \E id \in 1 .. last_entity, inp \in BaseInputs :
          LET base2d == [Base2D_new(inp.pos, inp.size) EXCEPT !.tint = inp.tint]
          IN  base_components' = push(base_components, id, base2d)
    /\ UNCHANGED <<pc, last_entity, returned, health_components, damage_calls,
                   last_damage, handles, frame_log, calls, joined, outcome,
                   geomVars>>

\* let mut health = Health::new(h); health.bar_style = style;
\* world.health_components.push((id, health));
PushHealth ==
    /\ pc = "setup"
    /\ Len(health_components) < MaxHealthComps
    /\ \E id \in 1 .. last_entity, h \in HealthInputs, style \in UIBarStyle :
          LET health == [Health_new(h) EXCEPT !.bar_style = style]
          IN  health_components' = push(health_components, id, health)
    /\ UNCHANGED <<pc, last_entity, returned, base_components, damage_calls,
                   last_damage, handles, frame_log, calls, joined, outcome,
                   geomVars>>

\* world.health_components[i].1.take_damage(amount);
TakeDamage ==
    /\ pc = "setup"
    /\ damage_calls < MaxHits
    /\ \E i \in DOMAIN health_components, amount \in DamageAmounts :
          \E o \in take_damage(health_components[i][2], amount) :
             /\ health_components' =
                   [health_components EXCEPT ![i] = <<@[1], o.self>>]
             /\ pc' = IF o.panic THEN "panicked" ELSE pc
             /\ last_damage' = [valid |-> TRUE, idx |-> i,
                                before |-> health_components[i][2].health,
                                amount |-> amount]
    /\ damage_calls' = damage_calls + 1
    /\ UNCHANGED <<last_entity, returned, base_components, handles, frame_log,
                   calls, joined, outcome, geomVars>>

----------------------------------------------------------------------------
(* main(): the frame loop *)

drop_d_leak(h) == h

\* The RaylibDrawHandle d goes out of scope: its Drop ends the drawing
drop_d(h) == h - 1

\* The loop is reached
EnterLoop ==
    /\ pc = "setup"
    /\ pc' = "poll"
    /\ UNCHANGED <<last_entity, returned, base_components, health_components,
                   damage_calls, last_damage, handles, frame_log, calls, joined,
                   outcome, geomVars>>

\* while !rl.window_should_close()  -- the window stays open
PollContinue ==
    /\ pc = "poll"
    /\ pc' = "begin"
    /\ frame_log' = <<"window_should_close">>
    /\ calls' = <<>>
    /\ joined' = <<>>
    /\ outcome' = "none"
    /\ UNCHANGED <<last_entity, returned, base_components, health_components,
                   damage_calls, last_damage, handles, geomVars>>

\* while !rl.window_should_close()  -- the window was closed: main returns
PollClose ==
    /\ pc = "poll"
    /\ pc' = "exited"
    /\ frame_log' = <<"window_should_close">>
    /\ calls' = <<>>
    /\ joined' = <<>>
    /\ outcome' = "none"
    /\ UNCHANGED <<last_entity, returned, base_components, health_components,
                   damage_calls, last_damage, handles, geomVars>>

\* let mut d = rl.begin_drawing(&thread);
BeginDrawing ==
    /\ pc = "begin"
    /\ pc' = "frame_time"
    /\ handles' = handles + 1
    /\ frame_log' = Append(frame_log, "begin_drawing")
    /\ UNCHANGED <<last_entity, returned, base_components, health_components,
                   damage_calls, last_damage, calls, joined, outcome, geomVars>>

\* dt = GetFrameTime();
GetFrameTime ==
    /\ pc = "frame_time"
    /\ pc' = "base_draw"
    /\ frame_log' = Append(frame_log, "GetFrameTime")
    /\ UNCHANGED <<last_entity, returned, base_components, health_components,
                   damage_calls, last_damage, handles, calls, joined, outcome,
                   geomVars>>

\* Base2D::draw_system(&mut world, &mut d);
Base2DDraw ==
    /\ pc = "base_draw"
    /\ pc' = "health_draw"
    /\ frame_log' = Append(frame_log, "Base2D::draw_system")
    /\ calls' = calls \o Base2D_draw_system(base_components, 1)
    /\ UNCHANGED <<last_entity, returned, base_components, health_components,
                   damage_calls, last_damage, handles, joined, outcome, geomVars>>

\* Health::draw_system(&mut world, &mut d);  A panic in it unwinds main():
\* d is dropped on the way out and the process ends.
HealthDraw ==
    /\ pc = "health_draw"
    /\ LET r == Health_draw_system(base_components, health_components, 1,
                    [calls |-> <<>>, joined |-> <<>>, panicked |-> FALSE])
       IN  /\ calls' = calls \o r.calls
           /\ joined' = r.joined
           /\ IF r.panicked
              THEN /\ pc' = "panicked"
                   /\ outcome' = "panicked"
                   /\ handles' = drop_d(handles)
                   /\ frame_log' = frame_log \o <<"Health::draw_system", "drop d">>
              ELSE /\ pc' = "clear"
                   /\ outcome' = "returned"
                   /\ handles' = handles
                   /\ frame_log' = Append(frame_log, "Health::draw_system")
    /\ UNCHANGED <<last_entity, returned, base_components, health_components,
                   damage_calls, last_damage, geomVars>>

\* d.clear_background(Color::BLACK);
ClearBackground ==
    /\ pc = "clear"
    /\ pc' = "fps"
    /\ frame_log' = Append(frame_log, "clear_background")
    /\ UNCHANGED <<last_entity, returned, base_components, health_components,
                   damage_calls, last_damage, handles, calls, joined, outcome,
                   geomVars>>

\* d.draw_fps(10, 10);
DrawFps ==
    /\ pc = "fps"
    /\ pc' = "end_of_body"
    /\ frame_log' = Append(frame_log, "draw_fps")
    /\ UNCHANGED <<last_entity, returned, base_components, health_components,
                   damage_calls, last_damage, handles, calls, joined, outcome,
                   geomVars>>

\* the closing brace of the loop body: d is dropped
EndFrame ==
    /\ pc = "end_of_body"
    /\ pc' = "poll"
    /\ handles' = drop_d(handles)
    /\ frame_log' = Append(frame_log, "drop d")
    /\ UNCHANGED <<last_entity, returned, base_components, health_components,
                   damage_calls, last_damage, calls, joined, outcome, geomVars>>

Next ==
    \/ NewEntity
    \/ PushBase
    \/ PushHealth
    \/ EnterLoop
    \/ PollContinue
    \/ PollClose
    \/ BeginDrawing
    \/ GetFrameTime
    \/ Base2DDraw
    \/ HealthDraw
    \/ ClearBackground
    \/ DrawFps
    \/ EndFrame

Spec == Init /\ [][Next]_vars

----------------------------------------------------------------------------
(* The Health component on its own: Health::new(h), then take_damage calls *)

InitHealth ==
    /\ pc = "setup"
    /\ last_entity = 1
    /\ returned = <<1>>
    /\ base_components = <<>>
    /\ \E h \in HealthNewInputs : health_components = <<<<1, Health_new(h)>>>>
    /\ damage_calls = 0
    /\ last_damage = NoDamage
    /\ handles = 0
    /\ frame_log = <<>>
    /\ calls = <<>>
    /\ joined = <<>>
    /\ outcome = "none"
    /\ gin = NoGeomIn
    /\ gbox = NoBox
    /\ gout = NoGeomOut

NextHealth == TakeDamage

SpecHealth == InitHealth /\ [][NextHealth]_vars

----------------------------------------------------------------------------
(* BoundingBox2D on its own: new, then width, height, center and calc *)

GeomNew ==
    /\ \E x \in GeomOrigins, y \in GeomOrigins, w \in GeomSizes, h \in GeomSizes :
          /\ gin' = [valid |-> TRUE, x |-> Fx(x), y |-> Fx(y), w |-> Fx(w), h |-> Fx(h)]
          /\ gbox' = BoundingBox2D_new(Fx(x), Fx(y), Fx(w), Fx(h))
    /\ gout' = NoGeomOut
    /\ UNCHANGED worldVars

GeomMeasure ==
    /\ gin.valid
    /\ gout' = [valid |-> TRUE, width |-> width(gbox), height |-> height(gbox),
                center |-> center(gbox),
                anchors |-> [a \in Anchor |-> calc(gbox, a)]]
    /\ UNCHANGED <<gin, gbox>>
    /\ UNCHANGED worldVars

NextGeom == GeomNew \/ GeomMeasure

SpecGeom == Init /\ [][NextGeom]_vars

----------------------------------------------------------------------------
(* Properties *)

IsPrefix(s, t) == Len(s) <= Len(t) /\ SubSeq(t, 1, Len(s)) = s

DamagedHealth == health_components[last_damage.idx][2]

\* C1: take_damage(amount) leaves health - amount when amount < health and 0
\* when amount >= health; it never underflows, wraps or aborts.
C1_DamageClamps ==
    last_damage.valid =>
       /\ pc # "panicked"
       /\ DamagedHealth.health =
             IF last_damage.amount < last_damage.before
             THEN last_damage.before - last_damage.amount
             ELSE 0

\* C2: after any sequence of take_damage calls 0 <= health <= max_health, and
\* no call changes max_health.
C2_HealthInRange ==
    [][\A i \in DOMAIN health_components :
          /\ health_components'[i][2].max_health = health_components[i][2].max_health
          /\ 0 <= health_components'[i][2].health
          /\ health_components'[i][2].health <= health_components'[i][2].max_health]_vars

\* C3: the identities new_entity returns are strictly increasing (so pairwise
\* distinct and never reused), the first is 1 and none is 0.
C3_EntityIdsIncrease ==
    /\ (Len(returned) > 0 => returned[1] = 1)
    /\ \A i \in DOMAIN returned : returned[i] # 0
    /\ \A i \in DOMAIN returned : \A j \in DOMAIN returned :
          i < j => returned[i] < returned[j]

C3_Witness == Len(returned) >= 2 /\ returned[2] = 2

JoinedStyle(j) == health_components[j.h][2].bar_style

BossReached == \E k \in DOMAIN joined : JoinedStyle(joined[k]) = "BOSS"

\* C4: when Health::draw_system reaches a joined entity whose bar style is
\* BOSS, the call returns an "unimplemented" outcome to the frame loop; the
\* process is not terminated and the call is not a silent no-op.
C4_BossIsRecoverable ==
    BossReached => (outcome = "unimplemented" /\ pc # "panicked")

HasHealth(i) ==
    \E k \in DOMAIN health_components :
       health_components[k][1] = base_components[i][1]

IsFirstMatch(i, k) ==
    /\ health_components[k][1] = base_components[i][1]
    /\ \A m \in 1 .. (k - 1) : health_components[m][1] # base_components[i][1]

\* the base entries the walk of Health::draw_system got to
Walked ==
    IF outcome = "panicked" THEN 1 .. joined[Len(joined)].b
    ELSE DOMAIN base_components

\* C5: the join visits exactly the presentation entries whose EntityID occurs
\* in the health store, in store order, each paired with the first health
\* entry of that EntityID; entries without a health entry are skipped and the
\* call still returns.  (A walk cut short by the BOSS arm covers the entries
\* up to that one.)
C5_JoinIsInnerFirstMatch ==
    outcome # "none" =>
       /\ \A n \in DOMAIN joined :
             /\ joined[n].b \in Walked
             /\ joined[n].h \in DOMAIN health_components
             /\ IsFirstMatch(joined[n].b, joined[n].h)
       /\ \A n \in DOMAIN joined : \A m \in DOMAIN joined :
             n < m => joined[n].b < joined[m].b
       /\ \A i \in Walked : HasHealth(i) <=> (\E n \in DOMAIN joined : joined[n].b = i)
       /\ (outcome = "panicked" <=> BossReached)

C5_Witness ==
    /\ outcome = "returned"
    /\ Len(base_components) = 2
    /\ ~HasHealth(1)
    /\ Len(health_components) = 2
    /\ health_components[1][1] = health_components[2][1]
    /\ health_components[1][2] # health_components[2][2]
    /\ joined = <<[b |-> 2, h |-> 1]>>

InFrame == {"frame_time", "base_draw", "health_draw", "clear", "fps", "end_of_body"}

\* C6: the drawing surface is held exactly while a frame is in progress: it
\* is acquired at the start of the frame, released when the frame ends on
\* every exit path (the BOSS panic included), and never acquired twice.
C6_SurfaceScopedToFrame ==
    /\ handles \in {0, 1}
    /\ (pc \in InFrame => handles = 1)
    /\ (pc \notin InFrame => handles = 0)

C6_Witness ==
    /\ pc = "panicked"
    /\ outcome = "panicked"
    /\ frame_log[Len(frame_log)] = "drop d"
    /\ handles = 0

IsBaseOutline(c) == c.sys = "Base2D" /\ c.op = "draw_rectangle_lines_ex"

BaseOutlines == SelectSeq(calls, IsBaseOutline)

\* what iterating base_components yielded, read off the outlines drawn
IterationInOrder ==
    pc \in {"health_draw", "clear", "fps", "end_of_body"} =>
       /\ Len(BaseOutlines) = Len(base_components)
       /\ \A k \in DOMAIN base_components :
             /\ BaseOutlines[k].x = base_components[k][2].bounds.x1
             /\ BaseOutlines[k].y = base_components[k][2].bounds.y1
             /\ BaseOutlines[k].color = base_components[k][2].tint

\* C7: a store only grows at its end (every attach appends one pair, also for
\* an EntityID already present, and nothing is replaced or removed), and
\* iterating it yields the pairs in the order attached.
C7_AppendOnlyInOrder ==
    /\ []IterationInOrder
    /\ [][/\ IsPrefix(base_components, base_components')
          /\ IsPrefix(health_components, health_components')
          /\ (base_components' # base_components
                 => Len(base_components') = Len(base_components) + 1)
          /\ (health_components' # health_components
                 => Len(health_components') = Len(health_components) + 1)]_vars

C7_Witness ==
    /\ pc = "health_draw"
    /\ Len(base_components) = 2
    /\ base_components[1][1] = base_components[2][1]
    /\ base_components[1][2] # base_components[2][2]
    /\ Len(health_components) = 2
    /\ health_components[1][1] = health_components[2][1]

IsHealthCall(c) == c.sys = "Health"

HealthCalls == SelectSeq(calls, IsHealthCall)

IsInline(j) == JoinedStyle(j) = "INLINE"

InlineJoined == SelectSeq(joined, IsInline)

\* the bar of a box: 80 x 10, centred 20 above the box's TopCenter
ExpectedBar(b) ==
    DrawCall("Health", "draw_rectangle_lines_ex",
             b.x1 + (b.x2 - b.x1) \div 2 - Fx(40), b.y1 - Fx(20) - Fx(5),
             Fx(80), Fx(10), "WHITE")

AnchorTable(x, y, w, h) ==
    [a \in Anchor |->
       CASE a = "TopLeft"      -> Vector2(x, y)
         [] a = "TopCenter"    -> Vector2(x + w \div 2, y)
         [] a = "TopRight"     -> Vector2(x + w, y)
         [] a = "CenterLeft"   -> Vector2(x, y + h \div 2)
         [] a = "Center"       -> Vector2(x + w \div 2, y + h \div 2)
         [] a = "CenterRight"  -> Vector2(x + w, y + h \div 2)
         [] a = "BottomLeft"   -> Vector2(x, y + h)
         [] a = "BottomCenter" -> Vector2(x + w \div 2, y + h)
         [] a = "BottomRight"  -> Vector2(x + w, y + h)]

GeomExact ==
    /\ gout.width = gin.w
    /\ gout.height = gin.h
    /\ gout.center = Vector2(gin.x + gin.w \div 2, gin.y + gin.h \div 2)
    /\ gout.anchors = AnchorTable(gin.x, gin.y, gin.w, gin.h)

\* the sums the box and its anchors need are f32 values
SumsRepresentable ==
    /\ F32Round(gin.x + gin.w) = gin.x + gin.w
    /\ F32Round(gin.y + gin.h) = gin.y + gin.h
    /\ F32Round(gin.x + gin.w \div 2) = gin.x + gin.w \div 2
    /\ F32Round(gin.y + gin.h \div 2) = gin.y + gin.h \div 2

\* C9 as stated: for every box built from (x, y) and a non-negative (w, h),
\* width() = w, height() = h, center() = (x + w/2, y + h/2) and calc maps the
\* 9 anchors to the corner, edge-midpoint and centre coordinates.
C9_GeometryExact == gout.valid => GeomExact

\* C9 as amended: the same, for the boxes whose sums x + w, y + h, x + w/2 and
\* y + h/2 are exactly representable in f32.
C9_GeometryExactWhenRepresentable ==
    (gout.valid /\ SumsRepresentable) => GeomExact

C9_Witness ==
    /\ gout.valid
    /\ gin = [valid |-> TRUE, x |-> 0, y |-> 0, w |-> Fx(100), h |-> Fx(50)]
    /\ gout.width = Fx(100)
    /\ gout.height = Fx(50)
    /\ gout.anchors["TopCenter"] = Vector2(Fx(50), 0)
    /\ gout.anchors["Center"] = Vector2(Fx(50), Fx(25))
    /\ gout.anchors["BottomRight"] = Vector2(Fx(100), Fx(50))

FrameOver == frame_log # <<>> /\ frame_log[Len(frame_log)] = "drop d"

IsFrameStep(e) == e \notin {"GetFrameTime", "drop d"}

\* C10: in every frame the termination query is polled once, the surface is
\* acquired, Base2D::draw_system and then Health::draw_system are each invoked
\* once, and clear_background is issued once as the frame's final step.
C10_FrameOrder ==
    FrameOver =>
       SelectSeq(frame_log, IsFrameStep) =
          <<"window_should_close", "begin_drawing", "Base2D::draw_system",
            "Health::draw_system", "clear_background">>

====
